---- MODULE Spec2Model ----
(***************************************************************************)
(* Process lifecycle controller of mamba-admin (start / stop / restart),   *)
(* modelled from src/mamba/scripts/mamba_admin.py.                         *)
(*                                                                         *)
(* Two operator processes may each run one command against the same        *)
(* application directory.  The directory holds the configuration, the      *)
(* plugin descriptors and the liveness marker twistd.pid.  The daemon      *)
(* (twistd) is the environment: a launched daemon may write the marker,    *)
(* a running daemon may remove it.                                         *)
(*                                                                         *)
(* Strings that the code only compares or concatenates are TLA+ strings.   *)
(* Strings that the code parses or searches are sequences: the marker      *)
(* content is a sequence of characters, a captured output is a sequence    *)
(* of text fragments, a file name is the sequence of its '_'-separated     *)
(* pieces.  Not modelled: a missing twistd executable (execlp / Popen      *)
(* raising OSError).                                                       *)
(***************************************************************************)
EXTENDS Integers, Sequences, FiniteSets, TLC

\* ------------------------------------------------------------------ bounds
\* Cap on the number of children one command may spawn (the code has none).
MaxSpawns == 3
\* Longest captured stdout, in text fragments.
MaxOutLen == 2

\* --------------------------------------------------------------- constants
\* Highest reserved port (mamba_admin.py:143, app.port <= 1024).
ReservedPortMax == 1024
\* uid of the privileged user (mamba_admin.py:144, os.getuid() != 0).
RootUid == 0

Procs == {1, 2}

\* Domains the inputs are drawn from.
Ports == {1024, 1025}
Uids == {0, 1000}
Platforms == {"LINUX", "BSD", "DARWIN", "WINDOWS", "OTHER"}
ReactorAttrs == {<<>>, <<"poll">>}
PythonHomes == {<<>>, <<"/app/", ".heroku", "/python">>}
PluginA == <<"my", "app", "plugin.py">>
PluginB == <<"dummy.py">>
PluginListings == {<<>>, <<PluginA>>, <<PluginB, PluginA>>}
PortOptions == {"", "8080"}
StalePid == <<"4", "2", "4", "2">>
GarbagePid == <<"a", "b", "c">>
DaemonPid == <<"7", "7">>
Fragments == {"exception", "already installed", "log line"}
ErrTexts == {<<>>, <<"Traceback">>}

VARIABLES
    \* the application directory and the host
    services,            \* TRUE iff import_services() succeeds
    port,                \* app.port: <<>> (None) or <<n>>
    development,         \* Application().development
    auto_select_reactor, \* Application().auto_select_reactor
    reactor,             \* Application().reactor: <<>> (no attribute) or <<r>>
    platform,            \* which of GNU_LINUX / BSD / OSX / WINDOWS is set
    POSIX,               \* mamba.core.POSIX
    uid,                 \* os.getuid()
    PYTHONHOME,          \* os.environ.get('PYTHONHOME', '')
    plugins,             \* glob.glob('twisted/plugins/*.py')
    twistd_output,       \* "any" | "plain": what a child may print
    marker,              \* twistd.pid: [exists, content]
    \* one command per process
    cmd,                 \* "start" | "stop" | "restart" | "none"
    options,             \* <<>> (None) or <<port option>>
    pc,                  \* position in the handler
    dropin_cache_wa,     \* second parameter of handle_start_command
    app_name,
    args,
    out,
    err,
    result,              \* "Ok" | "Fail" printed by start, "" before
    printed,             \* text printed on the last line of start
    stop_status,         \* "Ok" | "Fail" printed by stop, "" before
    outcome,             \* "running" | "exit" | "raised" | "exec" | "returned"
    exit_code,
    error,               \* which diagnostic ended the command, "" if none
    \* observations
    spawns,              \* number of subprocess.Popen calls
    kills,               \* arguments of the os.kill calls
    markerTouched,       \* the process has looked at twistd.pid
    lastPoll,            \* "none" | "present" | "absent": last restart poll
    startEntered         \* "no", or what the marker was when
                         \* handle_start_command was last entered

hostVars == <<services, port, development, auto_select_reactor, reactor,
              platform, POSIX, uid, PYTHONHOME, plugins, twistd_output>>
startVars == <<dropin_cache_wa, app_name, args, out, err, result, printed,
               spawns>>
stopVars == <<stop_status, kills>>
endVars == <<outcome, exit_code, error>>
vars == <<hostVars, marker, cmd, options, pc, startVars, stopVars, endVars,
          markerTouched, lastPoll, startEntered>>

\* ----------------------------------------------------------- pure helpers
RECURSIVE SeqsUpTo(_, _)
SeqsUpTo(S, n) ==
    IF n = 0 THEN {<<>>}
    ELSE LET shorter == SeqsUpTo(S, n - 1)
         IN shorter \cup {Append(s, x) : s \in shorter, x \in S}

\* needle in hay, for sequences: a contiguous occurrence.
Contains(hay, needle) ==
    \E i \in 0..(Len(hay) - Len(needle)) :
        \A j \in 1..Len(needle) : hay[i + j] = needle[j]

Digits == {"0", "1", "2", "3", "4", "5", "6", "7", "8", "9"}

DigitVal(c) ==
    CASE c = "0" -> 0 [] c = "1" -> 1 [] c = "2" -> 2 [] c = "3" -> 3
      [] c = "4" -> 4 [] c = "5" -> 5 [] c = "6" -> 6 [] c = "7" -> 7
      [] c = "8" -> 8 [] c = "9" -> 9

\* int(pid) raises ValueError unless the text is a decimal number.
IsDecimal(s) == Len(s) > 0 /\ \A i \in 1..Len(s) : s[i] \in Digits

RECURSIVE ToInt(_)
ToInt(s) ==
    IF Len(s) = 0 THEN 0
    ELSE 10 * ToInt(SubSeq(s, 1, Len(s) - 1)) + DigitVal(s[Len(s)])

\* list.remove(x): drops the first occurrence.
RemoveFirst(s, x) ==
    IF \E i \in 1..Len(s) : s[i] = x
    THEN LET k == CHOOSE i \in 1..Len(s) :
                      s[i] = x /\ \A j \in 1..(i - 1) : s[j] # x
         IN SubSeq(s, 1, k - 1) \o SubSeq(s, k + 1, Len(s))
    ELSE s

RECURSIVE JoinUnderscore(_)
JoinUnderscore(pieces) ==
    IF Len(pieces) = 1 THEN pieces[1]
    ELSE JoinUnderscore(SubSeq(pieces, 1, Len(pieces) - 1))
             \o "_" \o pieces[Len(pieces)]

\* name.rsplit('_', 1)[0]: everything before the last underscore, or the
\* whole name when it has none.
RsplitHead(pieces) ==
    IF Len(pieces) = 1 THEN pieces[1]
    ELSE JoinUnderscore(SubSeq(pieces, 1, Len(pieces) - 1))

\* Everything a child may print: any stdout up to MaxOutLen fragments with
\* any stderr.
AnyOutput == SeqsUpTo(Fragments, MaxOutLen) \X ErrTexts

\* A success, an "already installed" report and a failure on stderr.
PlainOutput ==
    {<<(<<"log line">>), (<<>>)>>,
     <<(<<"already installed">>), (<<>>)>>,
     <<(<<>>), (<<"Traceback">>)>>}

\* The <<stdout, stderr>> pairs proc.communicate() may return.
ChildOutput == IF twistd_output = "any" THEN AnyOutput ELSE PlainOutput

NoMarker == [exists |-> FALSE, content |-> <<>>]
MarkerWith(c) == [exists |-> TRUE, content |-> c]

\* ------------------------------------------------------------------- Init
PlatformIsPosix(pl, px) ==
    /\ pl \in {"LINUX", "BSD", "DARWIN"} => px
    /\ pl = "WINDOWS" => ~px

Commands ==
    {[cmd |-> "start", options |-> <<o>>] : o \in PortOptions}
        \cup {[cmd |-> "stop", options |-> <<>>],
              [cmd |-> "restart", options |-> <<>>]}

EntryPc(c) ==
    IF c = "start" THEN "load" ELSE IF c = "none" THEN "done" ELSE "s_import"

MarkerSeen(m) == IF m.exists THEN "marker present" ELSE "marker absent"

InitHost ==
    /\ services \in BOOLEAN
    /\ port \in {<<>>} \cup {<<n>> : n \in Ports}
    /\ development \in BOOLEAN
    /\ auto_select_reactor \in BOOLEAN
    /\ reactor \in ReactorAttrs
    /\ platform \in Platforms
    /\ POSIX \in BOOLEAN
    /\ PlatformIsPosix(platform, POSIX)
    /\ uid \in Uids
    /\ PYTHONHOME \in PythonHomes
    /\ plugins \in PluginListings
    /\ twistd_output = "any"
    /\ marker \in {NoMarker, MarkerWith(StalePid), MarkerWith(GarbagePid)}

InitProcs(c1, c2) ==
    /\ cmd = [p \in Procs |-> IF p = 1 THEN c1.cmd ELSE c2.cmd]
    /\ options = [p \in Procs |-> IF p = 1 THEN c1.options ELSE c2.options]
    /\ pc = [p \in Procs |-> IF p = 1 THEN EntryPc(c1.cmd) ELSE EntryPc(c2.cmd)]
    /\ dropin_cache_wa = [p \in Procs |-> FALSE]
    /\ app_name = [p \in Procs |-> ""]
    /\ args = [p \in Procs |-> <<>>]
    /\ out = [p \in Procs |-> <<>>]
    /\ err = [p \in Procs |-> <<>>]
    /\ result = [p \in Procs |-> ""]
    /\ printed = [p \in Procs |-> <<>>]
    /\ stop_status = [p \in Procs |-> ""]
    /\ outcome = [p \in Procs |->
                    IF (IF p = 1 THEN c1.cmd ELSE c2.cmd) = "none"
                    THEN "returned" ELSE "running"]
    /\ exit_code = [p \in Procs |-> 0]
    /\ error = [p \in Procs |-> ""]
    /\ spawns = [p \in Procs |-> 0]
    /\ kills = [p \in Procs |-> <<>>]
    /\ markerTouched = [p \in Procs |-> FALSE]
    /\ lastPoll = [p \in Procs |-> "none"]
    /\ startEntered = [p \in Procs |->
                         IF (IF p = 1 THEN c1.cmd ELSE c2.cmd) = "start"
                         THEN MarkerSeen(marker) ELSE "no"]

NoCommand == [cmd |-> "none", options |-> <<>>]

\* One command invocation (spec section 5: one controller instance handles
\* exactly one command).
Init ==
    /\ InitHost
    /\ \E c \in Commands : InitProcs(c, NoCommand)

\* ------------------------------------------------------- ending a command
Running(p) == outcome[p] = "running"

\* sys.exit(code) after printing the diagnostic `e`.
SysExit(p, code, e) ==
    /\ outcome' = [outcome EXCEPT ![p] = "exit"]
    /\ exit_code' = [exit_code EXCEPT ![p] = code]
    /\ error' = [error EXCEPT ![p] = e]
    /\ pc' = [pc EXCEPT ![p] = "done"]

\* an exception leaves the handler.
Raise(p, e) ==
    /\ outcome' = [outcome EXCEPT ![p] = "raised"]
    /\ error' = [error EXCEPT ![p] = e]
    /\ pc' = [pc EXCEPT ![p] = "done"]
    /\ UNCHANGED exit_code

Goto(p, label) ==
    /\ pc' = [pc EXCEPT ![p] = label]
    /\ UNCHANGED endVars

\* ------------------------------------------------------------------ start
\* Mutation: the marker is checked right after the configuration load.
StartLoadConfigMarkerFirst(p) ==
    /\ Running(p) /\ pc[p] = "load"
    /\ IF services
       THEN Goto(p, "marker")
       ELSE SysExit(p, -1, "ConfigurationMissing")
    /\ UNCHANGED <<hostVars, marker, cmd, options, startVars, stopVars,
                   markerTouched, lastPoll, startEntered>>

\* handle_start_command, lines 125-133: the services of the application
\* are imported and its configuration is loaded.
StartLoadConfig(p) ==
    /\ Running(p) /\ pc[p] = "load"
    /\ IF services
       THEN Goto(p, "port")
       ELSE SysExit(p, -1, "ConfigurationMissing")
    /\ UNCHANGED <<hostVars, marker, cmd, options, startVars, stopVars,
                   markerTouched, lastPoll, startEntered>>

\* Mutation: the boundary port is taken for an unreserved one.
IsReservedPortMut(n) == n < ReservedPortMax

IsReservedPort(n) == n <= ReservedPortMax

IsRoot(u) == u = RootUid

\* Mutation: the message is printed but the command goes on.
PortDeniedMut(p) ==
    /\ error' = [error EXCEPT ![p] = "PrivilegedPortDenied"]
    /\ pc' = [pc EXCEPT ![p] = "plugin"]
    /\ UNCHANGED <<outcome, exit_code>>

\* The message of lines 145-155 is printed and the command exits.
PortDenied(p) == SysExit(p, -1, "PrivilegedPortDenied")

\* lines 135-156: the port check, on POSIX platforms only.
StartCheckPort(p) ==
    /\ Running(p) /\ pc[p] = "port"
    /\ IF POSIX
       THEN IF port = <<>>
            THEN SysExit(p, -1, "MissingPort")
            ELSE IF IsReservedPort(port[1]) /\ ~IsRoot(uid)
                 THEN PortDenied(p)
                 ELSE Goto(p, "plugin")
       ELSE Goto(p, "plugin")
    /\ UNCHANGED <<hostVars, marker, cmd, options, startVars, stopVars,
                   markerTouched, lastPoll, startEntered>>

\* glob.glob(...)[0].split(os.sep)[-1].rsplit('_', 1)[0]
AppName(listing) == RsplitHead(listing[1])

\* lines 158-167: the application name is taken from the first plugin
\* descriptor; an empty listing raises IndexError.
StartFindPlugin(p) ==
    /\ Running(p) /\ pc[p] = "plugin"
    /\ IF Len(plugins) = 0
       THEN /\ SysExit(p, -1, "PluginNotFound")
            /\ UNCHANGED app_name
       ELSE /\ app_name' = [app_name EXCEPT ![p] = AppName(plugins)]
            /\ Goto(p, "marker")
    /\ UNCHANGED <<hostVars, marker, cmd, options, dropin_cache_wa, args,
                   out, err, result, printed, spawns, stopVars,
                   markerTouched, lastPoll, startEntered>>

\* Mutation: the marker is not looked at.
MarkerBlocksStartMut(m) == FALSE

\* filepath.exists('twistd.pid')
MarkerBlocksStart(m) == m.exists

\* lines 169-175: the marker check.
StartCheckMarker(p) ==
    /\ Running(p) /\ pc[p] = "marker"
    /\ markerTouched' = [markerTouched EXCEPT ![p] = TRUE]
    /\ IF MarkerBlocksStart(marker)
       THEN SysExit(p, -1, "AlreadyRunning")
       ELSE Goto(p, "args")
    /\ UNCHANGED <<hostVars, marker, cmd, options, startVars, stopVars,
                   lastPoll, startEntered>>

\* line 178
in_heroku == Contains(PYTHONHOME, <<".heroku">>)

GNU_LINUX == platform = "LINUX"
BSD == platform = "BSD"
OSX == platform = "DARWIN"
WINDOWS == platform = "WINDOWS"

\* Mutation: the BSD and OS X reactors are swapped.
PlatformDefaultMut ==
    IF GNU_LINUX THEN "epoll"
    ELSE IF BSD THEN "cf"
    ELSE IF OSX THEN "kqueue"
    ELSE IF WINDOWS THEN "iocp"
    ELSE "select"

\* lines 275-283
PlatformDefault ==
    IF GNU_LINUX THEN "epoll"
    ELSE IF BSD THEN "kqueue"
    ELSE IF OSX THEN "cf"
    ELSE IF WINDOWS THEN "iocp"
    ELSE "select"

\* lines 265-285
determine_platform_reactor ==
    IF reactor # <<>>
    THEN "--reactor=" \o reactor[1]
    ELSE "--reactor=" \o PlatformDefault

\* Mutation: "--syslog" takes the place of "--nodaemon" instead of being
\* appended.
DaemonOptionsMut(a) ==
    LET a1 == Append(a, IF ~in_heroku /\ ~development
                        THEN "--syslog" ELSE "--nodaemon")
    IN IF ~in_heroku /\ ~auto_select_reactor
       THEN Append(a1, determine_platform_reactor)
       ELSE a1

\* Mutation: "--nodaemon" is not removed in production.
DaemonOptionsKeeps(a) ==
    LET a1 == Append(a, "--nodaemon")
        a2 == IF ~in_heroku /\ ~auto_select_reactor
              THEN Append(a1, determine_platform_reactor)
              ELSE a1
    IN IF ~in_heroku /\ ~development
       THEN Append(a2, "--syslog")
       ELSE a2

\* lines 180-186: the options in front of the application name.
DaemonOptions(a) ==
    LET a1 == Append(a, "--nodaemon")
        a2 == IF ~in_heroku /\ ~auto_select_reactor
              THEN Append(a1, determine_platform_reactor)
              ELSE a1
    IN IF ~in_heroku /\ ~development
       THEN Append(RemoveFirst(a2, "--nodaemon"), "--syslog")
       ELSE a2

\* lines 190-191
PortOption(a, opts) ==
    IF opts # <<>> /\ opts[1] # ""
    THEN Append(a, "--port=" \o opts[1])
    ELSE a

\* lines 158, 178-191: the argument vector.
BuildArgs(name, opts) ==
    PortOption(Append(DaemonOptions(<<"twistd">>), name), opts)

StartBuildArgs(p) ==
    /\ Running(p) /\ pc[p] = "args"
    /\ args' = [args EXCEPT ![p] = BuildArgs(app_name[p], options[p])]
    /\ Goto(p, "launch")
    /\ UNCHANGED <<hostVars, marker, cmd, options, dropin_cache_wa, app_name,
                   out, err, result, printed, spawns, stopVars,
                   markerTouched, lastPoll, startEntered>>

\* Mutation: development mode is forgotten.
ReplacesProcessMut == in_heroku

\* line 193
ReplacesProcess == in_heroku \/ development

\* Mutation: the marker is looked at again right before the launch, which
\* then waits for it to be absent.
StartLaunchRechecks(p) ==
    /\ Running(p) /\ pc[p] = "launch"
    /\ ~marker.exists
    /\ IF ReplacesProcess
       THEN /\ outcome' = [outcome EXCEPT ![p] = "exec"]
            /\ pc' = [pc EXCEPT ![p] = "done"]
            /\ UNCHANGED <<exit_code, error, out, err, spawns>>
       ELSE /\ spawns[p] < MaxSpawns
            /\ spawns' = [spawns EXCEPT ![p] = @ + 1]
            /\ \E said \in ChildOutput :
                   /\ out' = [out EXCEPT ![p] = said[1]]
                   /\ err' = [err EXCEPT ![p] = said[2]]
            /\ Goto(p, "classify")
    /\ UNCHANGED <<hostVars, marker, cmd, options, dropin_cache_wa, app_name,
                   args, result, printed, stopVars, markerTouched, lastPoll,
                   startEntered>>

\* lines 193-204: os.execlp replaces the process image, or a child is
\* spawned and its complete output is collected.
StartLaunch(p) ==
    /\ Running(p) /\ pc[p] = "launch"
    /\ IF ReplacesProcess
       THEN /\ outcome' = [outcome EXCEPT ![p] = "exec"]
            /\ pc' = [pc EXCEPT ![p] = "done"]
            /\ UNCHANGED <<exit_code, error, out, err, spawns>>
       ELSE /\ spawns[p] < MaxSpawns
            /\ spawns' = [spawns EXCEPT ![p] = @ + 1]
            /\ \E said \in ChildOutput :
                   /\ out' = [out EXCEPT ![p] = said[1]]
                   /\ err' = [err EXCEPT ![p] = said[2]]
            /\ Goto(p, "classify")
    /\ UNCHANGED <<hostVars, marker, cmd, options, dropin_cache_wa, app_name,
                   args, result, printed, stopVars, markerTouched, lastPoll,
                   startEntered>>

\* Mutation: "already installed" is looked for before "exception".
ClassifyMut(o, e) ==
    IF e = <<>>
    THEN IF Contains(o, <<"already installed">>) THEN "Retry"
         ELSE IF Contains(o, <<"exception">>) THEN "Fail"
         ELSE "Ok"
    ELSE "Fail"

\* lines 205-216: what the captured output means.
Classify(o, e) ==
    IF e = <<>>
    THEN IF Contains(o, <<"exception">>) THEN "Fail"
         ELSE IF Contains(o, <<"already installed">>) THEN "Retry"
         ELSE "Ok"
    ELSE "Fail"

\* Mutation: the retry launches again without going through the checks.
RetrySkipsChecks(p) ==
    /\ dropin_cache_wa' = [dropin_cache_wa EXCEPT ![p] = TRUE]
    /\ startEntered' = [startEntered EXCEPT ![p] = MarkerSeen(marker)]
    /\ Goto(p, "args")
    /\ UNCHANGED <<result, printed>>

\* line 210: return handle_start_command(options, True)
Retry(p) ==
    /\ dropin_cache_wa' = [dropin_cache_wa EXCEPT ![p] = TRUE]
    /\ startEntered' = [startEntered EXCEPT ![p] = MarkerSeen(marker)]
    /\ Goto(p, "load")
    /\ UNCHANGED <<result, printed>>

\* lines 205-220
StartClassify(p) ==
    /\ Running(p) /\ pc[p] = "classify"
    /\ LET c == Classify(out[p], err[p])
       IN IF c = "Retry"
          THEN Retry(p)
          ELSE /\ result' = [result EXCEPT ![p] = c]
               /\ printed' = [printed EXCEPT ![p] =
                                 IF c = "Fail" THEN err[p] ELSE out[p]]
               /\ IF c = "Fail"
                  THEN SysExit(p, -1, "LaunchFailure")
                  ELSE SysExit(p, 0, "")
               /\ UNCHANGED <<dropin_cache_wa, startEntered>>
    /\ UNCHANGED <<hostVars, marker, cmd, options, app_name, args, out, err,
                   spawns, stopVars, markerTouched, lastPoll>>

\* ------------------------------------------------------------------- stop
\* lines 227-234
StopImport(p) ==
    /\ Running(p) /\ pc[p] = "s_import"
    /\ IF services
       THEN Goto(p, "s_exists")
       ELSE SysExit(p, -1, "ConfigurationMissing")
    /\ UNCHANGED <<hostVars, marker, cmd, options, startVars, stopVars,
                   markerTouched, lastPoll, startEntered>>

\* lines 236-242
StopCheckMarker(p) ==
    /\ Running(p) /\ pc[p] = "s_exists"
    /\ markerTouched' = [markerTouched EXCEPT ![p] = TRUE]
    /\ IF ~marker.exists
       THEN SysExit(p, -1, "NotRunning")
       ELSE Goto(p, "s_kill")
    /\ UNCHANGED <<hostVars, marker, cmd, options, startVars, stopVars,
                   lastPoll, startEntered>>

\* Mutation: stop itself waits for the marker to go.
StopReturnsWaits(p) == Goto(p, "poll")

\* handle_stop_command returns: the stop command is over, restart goes on
\* to its poll loop (line 260).
StopReturns(p) ==
    IF cmd[p] = "restart"
    THEN Goto(p, "poll")
    ELSE /\ outcome' = [outcome EXCEPT ![p] = "returned"]
         /\ pc' = [pc EXCEPT ![p] = "done"]
         /\ UNCHANGED <<exit_code, error>>

\* Mutation: the except clause swallows the error.
StopFailedMut(p) == StopReturns(p)

\* line 252: the bare raise of the except clause.
StopFailed(p) == Raise(p, "SignalDeliveryFailure")

\* Mutation: the last character is dropped before the conversion.
KillTargetMut(content) == ToInt(SubSeq(content, 1, Len(content) - 1))

\* int(pid) of line 248
KillTarget(content) == ToInt(content)

\* lines 244-252: the marker is read and the process it names is sent
\* SIGINT.  open() raises when the marker has gone since line 237; int()
\* raises inside the try block when the content is not a number; os.kill
\* raises or not as the operating system decides.
StopKill(p) ==
    /\ Running(p) /\ pc[p] = "s_kill"
    /\ IF ~marker.exists
       THEN /\ Raise(p, "IOError")
            /\ UNCHANGED stopVars
       ELSE IF ~IsDecimal(marker.content)
            THEN /\ stop_status' = [stop_status EXCEPT ![p] = "Fail"]
                 /\ StopFailed(p)
                 /\ UNCHANGED kills
            ELSE /\ kills' = [kills EXCEPT ![p] =
                                Append(@, KillTarget(marker.content))]
                 /\ \E delivered \in BOOLEAN :
                       IF delivered
                       THEN /\ stop_status' = [stop_status EXCEPT ![p] = "Ok"]
                            /\ StopReturns(p)
                       ELSE /\ stop_status' = [stop_status EXCEPT ![p] = "Fail"]
                            /\ StopFailed(p)
    /\ UNCHANGED <<hostVars, marker, cmd, options, startVars, markerTouched,
                   lastPoll, startEntered>>

\* ---------------------------------------------------------------- restart
\* Mutation: the loop does not wait.
PollDoneMut(m) == TRUE

\* Mutation: the loop test is stuck at true.
PollDoneNever(m) == FALSE

\* line 260: the loop ends when the marker is gone.
PollDone(m) == ~m.exists

\* lines 260-262: one check of the marker; sleep and check again, or go on
\* to handle_start_command().
RestartPoll(p) ==
    /\ Running(p) /\ pc[p] = "poll"
    /\ markerTouched' = [markerTouched EXCEPT ![p] = TRUE]
    /\ lastPoll' = [lastPoll EXCEPT ![p] =
                       IF marker.exists THEN "present" ELSE "absent"]
    /\ IF PollDone(marker)
       THEN /\ startEntered' = [startEntered EXCEPT ![p] = MarkerSeen(marker)]
            /\ Goto(p, "load")
       ELSE /\ Goto(p, "poll")
            /\ UNCHANGED startEntered
    /\ UNCHANGED <<hostVars, marker, cmd, options, startVars, stopVars>>

\* ------------------------------------------------------------ environment
SomeoneRunning == \E p \in Procs : Running(p)

DaemonLaunched == \E p \in Procs : spawns[p] > 0 \/ outcome[p] = "exec"

\* A launched daemon writes its process id to twistd.pid.
DaemonWritesMarker ==
    /\ SomeoneRunning /\ DaemonLaunched
    /\ ~marker.exists
    /\ marker' = MarkerWith(DaemonPid)
    /\ UNCHANGED <<hostVars, cmd, options, pc, startVars, stopVars, endVars,
                   markerTouched, lastPoll, startEntered>>

\* The daemon (or the operator) removes twistd.pid.
DaemonRemovesMarker ==
    /\ SomeoneRunning
    /\ marker.exists
    /\ marker' = NoMarker
    /\ UNCHANGED <<hostVars, cmd, options, pc, startVars, stopVars, endVars,
                   markerTouched, lastPoll, startEntered>>

\* ------------------------------------------------------------------- Next
Next ==
    \/ \E p \in Procs : StartLoadConfig(p)
    \/ \E p \in Procs : StartCheckPort(p)
    \/ \E p \in Procs : StartFindPlugin(p)
    \/ \E p \in Procs : StartCheckMarker(p)
    \/ \E p \in Procs : StartBuildArgs(p)
    \/ \E p \in Procs : StartLaunch(p)
    \/ \E p \in Procs : StartClassify(p)
    \/ \E p \in Procs : StopImport(p)
    \/ \E p \in Procs : StopCheckMarker(p)
    \/ \E p \in Procs : StopKill(p)
    \/ \E p \in Procs : RestartPoll(p)
    \/ DaemonWritesMarker
    \/ DaemonRemovesMarker

Spec == Init /\ [][Next]_vars

\* Two commands at once in one application directory: any command on
\* process 1, a start on process 2, on a LINUX host with the application
\* in place and a supervised launch.
InitHostTwo ==
    /\ services = TRUE
    /\ port \in {<<n>> : n \in Ports}
    /\ development = FALSE
    /\ auto_select_reactor = FALSE
    /\ reactor = <<>>
    /\ platform = "LINUX"
    /\ POSIX = TRUE
    /\ uid \in Uids
    /\ PYTHONHOME = <<>>
    /\ plugins = <<PluginA>>
    /\ twistd_output = "plain"
    /\ marker \in {NoMarker, MarkerWith(StalePid)}

InitTwo ==
    /\ InitHostTwo
    /\ \E c \in Commands :
          InitProcs(c, [cmd |-> "start", options |-> <<"">>])

SpecTwo == InitTwo /\ [][Next]_vars

\* Every step the controller process p can take.
Step(p) ==
    \/ StartLoadConfig(p) \/ StartCheckPort(p) \/ StartFindPlugin(p)
    \/ StartCheckMarker(p) \/ StartBuildArgs(p) \/ StartLaunch(p)
    \/ StartClassify(p)
    \/ StopImport(p) \/ StopCheckMarker(p) \/ StopKill(p)
    \/ RestartPoll(p)

InitLive ==
    /\ InitHostTwo
    /\ InitProcs([cmd |-> "restart", options |-> <<>>], NoCommand)

\* One restart command that keeps running: a controller process that can
\* take a step eventually takes one (the poll loop sleeps 0.1 s and checks
\* again).  Nothing is assumed of the daemon.
SpecLive ==
    /\ InitLive /\ [][Next]_vars
    /\ \A p \in Procs : WF_vars(Step(p))

TypeOK ==
    /\ \A p \in Procs : spawns[p] \in 0..MaxSpawns
    /\ \A p \in Procs : outcome[p] \in
           {"running", "exit", "raised", "exec", "returned"}

\* ================================================================= claims
StartCommand(p) == cmd[p] = "start"
Done(p) == pc[p] = "done"
Launched(p) == spawns[p] > 0 \/ outcome[p] = "exec"
Range(s) == {s[i] : i \in 1..Len(s)}

\* C1 (as stated): a start command invoked while twistd.pid exists ends
\* with the AlreadyRunning error, exit code -1 and no launch, whatever the
\* configuration, platform and privilege level.
C1_Original ==
    \A p \in Procs :
        (StartCommand(p) /\ ~dropin_cache_wa[p] /\ Done(p)
            /\ startEntered[p] = "marker present")
        => /\ error[p] = "AlreadyRunning"
           /\ outcome[p] = "exit" /\ exit_code[p] = -1
           /\ ~Launched(p)

\* C1 (amended): whenever twistd.pid exists at the moment start performs
\* its marker check, that step ends the command with the AlreadyRunning
\* error and exit code -1 without spawning; a command that ended with
\* AlreadyRunning has not replaced its process image and, unless it was an
\* automatic retry, has spawned no child.
C1_MarkerBlocksStart ==
    /\ [][\A p \in Procs :
            (pc[p] = "marker" /\ pc'[p] # "marker" /\ marker.exists)
            => /\ error'[p] = "AlreadyRunning"
               /\ outcome'[p] = "exit" /\ exit_code'[p] = -1
               /\ spawns'[p] = spawns[p]]_vars
    /\ [](\A p \in Procs :
            error[p] = "AlreadyRunning"
            => /\ outcome[p] = "exit" /\ exit_code[p] = -1
               /\ (~dropin_cache_wa[p] => spawns[p] = 0))

C1_Witness ==
    \E p \in Procs :
        /\ StartCommand(p) /\ error[p] = "AlreadyRunning"
        /\ marker.exists /\ spawns[p] = 0

\* C2: one start command spawns the child at most twice: an AlreadyRunning
\* launch is retried once, a second one is not retried again.
C2_RetryBound == \A p \in Procs : spawns[p] <= 2

\* The argument vector without "twistd" and without a trailing port option.
CoreArgs(p) ==
    IF options[p] # <<>> /\ options[p][1] # ""
    THEN SubSeq(args[p], 2, Len(args[p]) - 1)
    ELSE SubSeq(args[p], 2, Len(args[p]))

EndsWith(s, t) ==
    Len(s) >= Len(t) /\ SubSeq(s, Len(s) - Len(t) + 1, Len(s)) = t

SupervisedWithReactor ==
    ~in_heroku /\ ~development /\ ~auto_select_reactor

PortLast(p) ==
    (options[p] # <<>> /\ options[p][1] = "8080")
        => args[p][Len(args[p])] = "--port=8080"

\* C3 (as stated): outside managed hosting, with development and
\* auto_select_reactor off, the arguments have no "--nodaemon" and end
\* with "--syslog", the reactor option, the application name, in that
\* order, followed only by the port option.
C3_Original ==
    \A p \in Procs :
        (args[p] # <<>> /\ SupervisedWithReactor)
        => /\ "--nodaemon" \notin Range(args[p])
           /\ EndsWith(CoreArgs(p),
                       <<"--syslog", determine_platform_reactor, app_name[p]>>)
           /\ PortLast(p)

\* C3 (amended): under the same conditions the arguments have no
\* "--nodaemon" and end with the reactor option, "--syslog", the
\* application name, in that order (on LINUX without a configured reactor:
\* "--reactor=epoll", "--syslog", name), followed only by the port option
\* when a port override is given.
C3_ArgumentOrder ==
    \A p \in Procs :
        (args[p] # <<>> /\ SupervisedWithReactor)
        => /\ "--nodaemon" \notin Range(args[p])
           /\ EndsWith(CoreArgs(p),
                       <<determine_platform_reactor, "--syslog", app_name[p]>>)
           /\ (platform = "LINUX" /\ reactor = <<>>
                 => CoreArgs(p) = <<"--reactor=epoll", "--syslog", app_name[p]>>)
           /\ PortLast(p)
           /\ (options[p] = <<>> \/ options[p] = <<"">>
                 => args[p][Len(args[p])] = app_name[p])

C3_Witness ==
    \E p \in Procs :
        /\ SupervisedWithReactor /\ platform = "LINUX" /\ reactor = <<>>
        /\ args[p] = <<"twistd", "--reactor=epoll", "--syslog", "my_app",
                       "--port=8080">>

\* The failures of the stop step that the claims name.
StopStepFailed(p) == error[p] = "NotRunning" \/ stop_status[p] = "Fail"

\* C4: when the stop step of restart fails with NotRunning or with a
\* signal-delivery error, the failure leaves restart: the command is over,
\* the poll loop was never entered, start was never invoked and nothing
\* was launched.
C4_RestartAbortsOnFailedStop ==
    \A p \in Procs :
        (cmd[p] = "restart" /\ StopStepFailed(p))
        => /\ Done(p) /\ outcome[p] \in {"exit", "raised"}
           /\ (error[p] = "NotRunning"
                 => outcome[p] = "exit" /\ exit_code[p] = -1)
           /\ (stop_status[p] = "Fail" => outcome[p] = "raised")
           /\ lastPoll[p] = "none"
           /\ startEntered[p] = "no"
           /\ ~Launched(p)

C4_Witness ==
    \E p \in Procs :
        /\ cmd[p] = "restart" /\ stop_status[p] = "Fail"
        /\ outcome[p] = "raised"
        /\ marker = MarkerWith(GarbagePid) /\ kills[p] = <<>>

C4_WitnessNotRunning ==
    \E p \in Procs :
        /\ cmd[p] = "restart" /\ error[p] = "NotRunning" /\ Done(p)

InStart(p) ==
    pc[p] \in {"load", "port", "plugin", "marker", "args", "launch",
               "classify"}

\* C5: in restart, start is entered only by a marker check of the poll
\* loop that finds the marker absent, after a stop whose signal was sent
\* successfully; it is never entered while the last poll saw the marker.
C5_RestartOrdering ==
    /\ [][\A p \in Procs :
            (cmd[p] = "restart" /\ ~InStart(p) /\ InStart(p)')
            => /\ pc[p] = "poll" /\ pc'[p] = "load"
               /\ ~marker.exists
               /\ lastPoll'[p] = "absent"
               /\ stop_status[p] = "Ok" /\ Len(kills[p]) = 1]_vars
    /\ [](\A p \in Procs :
            (cmd[p] = "restart" /\ (InStart(p) \/ startEntered[p] # "no"))
            => /\ lastPoll[p] = "absent"
               /\ stop_status[p] = "Ok")
    /\ [](\A p \in Procs :
            (cmd[p] = "restart" /\ pc[p] = "poll") => stop_status[p] = "Ok")

C5_Witness ==
    \E p \in Procs :
        /\ cmd[p] = "restart" /\ pc[p] = "port"
        /\ lastPoll[p] = "absent" /\ kills[p] = <<4242>>

Mentions(o, fragment) == \E i \in 1..Len(o) : o[i] = fragment

\* C6: the outcome of a supervised launch is decided by stderr first, then
\* by "exception" in stdout, then by "already installed" in stdout:
\* Failure (exit -1), Failure (exit -1), retry, and Success (exit 0)
\* otherwise; start exits 0 only when the last attempt is a Success.
C6_Classification ==
    /\ [][\A p \in Procs :
            (pc[p] = "classify" /\ pc'[p] # "classify")
            => IF err[p] # <<>> \/ Mentions(out[p], "exception")
               THEN /\ outcome'[p] = "exit" /\ exit_code'[p] = -1
                    /\ result'[p] = "Fail"
               ELSE IF Mentions(out[p], "already installed")
               THEN /\ outcome'[p] = "running" /\ pc'[p] = "load"
                    /\ dropin_cache_wa'[p]
               ELSE /\ outcome'[p] = "exit" /\ exit_code'[p] = 0
                    /\ result'[p] = "Ok"]_vars
    /\ [](\A p \in Procs :
            (cmd[p] \in {"start", "restart"} /\ outcome[p] = "exit"
                /\ exit_code[p] = 0)
            => /\ result[p] = "Ok" /\ err[p] = <<>> /\ spawns[p] > 0
               /\ ~Mentions(out[p], "exception")
               /\ ~Mentions(out[p], "already installed"))

C6_Witness ==
    \E p \in Procs :
        /\ out[p] = <<"already installed", "exception">> /\ err[p] = <<>>
        /\ result[p] = "Fail" /\ exit_code[p] = -1 /\ spawns[p] = 1

\* C7 (as stated): a stop that finds no marker fails with NotRunning, exit
\* code -1, and signals nobody; a stop that finds the marker sends exactly
\* one signal, and prints Ok if the call raised nothing, Fail (and raises
\* again) otherwise.
C7_Original ==
    \A p \in Procs :
        /\ error[p] = "NotRunning"
             => outcome[p] = "exit" /\ exit_code[p] = -1 /\ kills[p] = <<>>
        /\ stop_status[p] # ""
             => /\ Len(kills[p]) = 1
                /\ (stop_status[p] = "Fail"
                      <=> error[p] = "SignalDeliveryFailure")

\* The process id a marker content stands for, written out.
PidWritten(content) ==
    IF content = StalePid THEN 4242
    ELSE IF content = DaemonPid THEN 77
    ELSE -1

\* C7 (amended): a stop that finds no marker fails with NotRunning, exit
\* code -1, and signals nobody.  A stop that finds and reads the marker
\* sends exactly one signal, to the process id written in it, when the
\* content is a number, and then prints Ok if and only if the call raised
\* nothing, Fail (and raises again) otherwise; when the content is not a
\* number it sends no signal, prints Fail and raises.
C7_StopSignals ==
    /\ [][\A p \in Procs :
            (pc[p] = "s_exists" /\ pc'[p] # "s_exists")
            => IF marker.exists
               THEN pc'[p] = "s_kill" /\ outcome'[p] = "running"
               ELSE /\ error'[p] = "NotRunning"
                    /\ outcome'[p] = "exit" /\ exit_code'[p] = -1
                    /\ kills'[p] = <<>>]_vars
    /\ [][\A p \in Procs :
            (pc[p] = "s_kill" /\ pc'[p] # "s_kill" /\ marker.exists)
            => IF PidWritten(marker.content) >= 0
               THEN /\ kills'[p] = <<PidWritten(marker.content)>>
                    /\ stop_status'[p] \in {"Ok", "Fail"}
                    /\ (stop_status'[p] = "Ok" <=> outcome'[p] # "raised")
                    /\ (stop_status'[p] = "Fail"
                          <=> error'[p] = "SignalDeliveryFailure")
               ELSE /\ kills'[p] = <<>>
                    /\ stop_status'[p] = "Fail"
                    /\ outcome'[p] = "raised"
                    /\ error'[p] = "SignalDeliveryFailure"]_vars
    /\ [](\A p \in Procs : Len(kills[p]) <= 1)

C7_Witness ==
    \E p \in Procs :
        /\ cmd[p] = "stop" /\ stop_status[p] = "Ok"
        /\ kills[p] = <<4242>> /\ outcome[p] = "returned"

\* C8: on a POSIX platform the port check of start fails with
\* PrivilegedPortDenied exactly when the port is at most 1024 and the user
\* is not root, with MissingPort exactly when there is no port, and
\* passes otherwise; elsewhere it always passes.
C8_PortValidation ==
    [][\A p \in Procs :
         (pc[p] = "port" /\ pc'[p] # "port")
         => /\ error'[p] = "PrivilegedPortDenied"
                 <=> (POSIX /\ port # <<>> /\ port[1] <= 1024 /\ uid # 0)
            /\ error'[p] = "MissingPort" <=> (POSIX /\ port = <<>>)
            /\ (port # <<>> /\ port[1] > 1024) => pc'[p] = "plugin"
            /\ ~POSIX => pc'[p] = "plugin"
            /\ pc'[p] = "plugin" <=> error'[p] = ""
            /\ pc'[p] # "plugin"
                 => outcome'[p] = "exit" /\ exit_code'[p] = -1]_vars

C8_Witness ==
    \E p \in Procs :
        /\ error[p] = "PrivilegedPortDenied" /\ port = <<1024>>
        /\ POSIX /\ uid = 1000 /\ exit_code[p] = -1

ConfigErrors == {"ConfigurationMissing", "MissingPort", "PrivilegedPortDenied"}

\* C9: a command that reports a configuration or privilege failure has
\* ended with exit code -1 and has launched nothing (no child, no process
\* replacement); a start command has then not looked at the marker, and
\* the steps of start that load the configuration and check the port
\* neither look at the marker nor change it.
C9_ConfigFailureBeforeLaunch ==
    /\ [](\A p \in Procs :
            error[p] \in ConfigErrors
            => /\ Done(p) /\ outcome[p] = "exit" /\ exit_code[p] = -1
               /\ ~Launched(p)
               /\ args[p] = <<>>
               /\ (StartCommand(p) => ~markerTouched[p]))
    /\ [][\A p \in Procs :
            (pc[p] \in {"load", "port"} /\ pc'[p] # pc[p])
            => /\ marker' = marker
               /\ markerTouched'[p] = markerTouched[p]
               /\ spawns'[p] = spawns[p] /\ outcome'[p] # "exec"
               /\ (pc'[p] = "done"
                     => error'[p] \in ConfigErrors /\ exit_code'[p] = -1)]_vars

C9_Witness ==
    \E p \in Procs :
        /\ StartCommand(p) /\ error[p] = "PrivilegedPortDenied"
        /\ marker.exists /\ ~markerTouched[p] /\ exit_code[p] = -1

ReactorOptions ==
    {"--reactor=" \o r :
        r \in {"epoll", "kqueue", "cf", "iocp", "select", "poll"}}

ReactorTable ==
    [pl \in Platforms |->
        CASE pl = "LINUX" -> "epoll"
          [] pl = "BSD" -> "kqueue"
          [] pl = "DARWIN" -> "cf"
          [] pl = "WINDOWS" -> "iocp"
          [] pl = "OTHER" -> "select"]

\* C10: without a configured reactor the selector gives epoll on LINUX,
\* kqueue on BSD, cf on DARWIN, iocp on WINDOWS and select elsewhere; a
\* configured reactor is given back unchanged on every platform.  The
\* arguments hold the selector's result, once, when auto_select_reactor
\* is off outside managed hosting, and no reactor option otherwise.
C10_ReactorSelection ==
    \A p \in Procs :
        args[p] # <<>>
        => LET selected == IF reactor = <<>> THEN ReactorTable[platform]
                           ELSE reactor[1]
               present == {i \in 1..Len(args[p]) : args[p][i] \in ReactorOptions}
           IN IF ~auto_select_reactor /\ ~in_heroku
              THEN /\ Cardinality(present) = 1
                   /\ \A i \in present : args[p][i] = "--reactor=" \o selected
              ELSE present = {}

C10_Witness ==
    \E p \in Procs :
        /\ platform = "DARWIN" /\ reactor = <<>>
        /\ ~auto_select_reactor /\ ~in_heroku
        /\ "--reactor=cf" \in Range(args[p])

C10_WitnessOverride ==
    \E p \in Procs :
        /\ platform = "WINDOWS" /\ reactor = <<"poll">>
        /\ "--reactor=poll" \in Range(args[p])

\* C11: the launch replaces the process image exactly when the environment
\* is managed hosting or development is on, and then captures nothing,
\* classifies nothing, retries nothing and yields no exit code; in every
\* other case it spawns a child, collects its output and classifies it,
\* and the command ends with exit code 0 or -1.
C11_LaunchStrategy ==
    /\ [][\A p \in Procs :
            (pc[p] = "launch" /\ pc'[p] # "launch")
            => IF in_heroku \/ development
               THEN /\ outcome'[p] = "exec" /\ pc'[p] = "done"
                    /\ spawns'[p] = spawns[p]
                    /\ out'[p] = out[p] /\ err'[p] = err[p]
                    /\ result'[p] = result[p]
                    /\ exit_code'[p] = exit_code[p]
               ELSE /\ outcome'[p] = "running" /\ pc'[p] = "classify"
                    /\ spawns'[p] = spawns[p] + 1]_vars
    /\ [](\A p \in Procs :
            /\ outcome[p] = "exec"
                 => /\ in_heroku \/ development
                    /\ spawns[p] = 0 /\ out[p] = <<>> /\ err[p] = <<>>
                    /\ result[p] = "" /\ ~dropin_cache_wa[p]
                    /\ error[p] = "" /\ Done(p)
            /\ spawns[p] > 0 => ~in_heroku /\ ~development
            /\ (spawns[p] > 0 /\ Done(p))
                 => /\ outcome[p] = "exit" /\ exit_code[p] \in {0, -1}
                    /\ (result[p] # "" <=> error[p] # "AlreadyRunning"))

C11_Witness ==
    \E p \in Procs :
        /\ outcome[p] = "exec" /\ development /\ ~in_heroku
        /\ "--nodaemon" \in Range(args[p])

\* C12: start gives no mutual exclusion between its marker check and its
\* spawn.  The check passes whenever the marker is absent, whatever any
\* other command has done, and a supervised launch that has passed the
\* check is never held back by the marker or by another command; so two
\* start commands run together on an absent marker can both spawn.
C12_NoMutualExclusion ==
    /\ [][\A p \in Procs :
            (pc[p] = "marker" /\ pc'[p] # "marker" /\ ~marker.exists)
            => pc'[p] = "args" /\ outcome'[p] = "running"]_vars
    /\ [](\A p \in Procs :
            (Running(p) /\ pc[p] = "launch" /\ ~in_heroku /\ ~development
                /\ spawns[p] < MaxSpawns)
            => ENABLED StartLaunch(p))

C12_Witness ==
    \A p \in Procs :
        /\ StartCommand(p) /\ startEntered[p] = "marker absent"
        /\ ~dropin_cache_wa[p]
        /\ spawns[p] = 1 /\ pc[p] = "classify"

\* C13: the poll loop of restart has no timeout.  While the marker is there
\* every check leaves restart in the loop, so restart never reaches start
\* and never ends if the marker is never removed; if the marker is
\* eventually removed for good, restart eventually enters start.
C13_UnboundedWait ==
    /\ [][\A p \in Procs :
            (pc[p] = "poll" /\ marker.exists)
            => pc'[p] = "poll" /\ outcome'[p] = "running"
                  /\ startEntered'[p] = "no"]_vars
    /\ \A p \in Procs :
          [](pc[p] = "poll" /\ [](marker.exists) => [](pc[p] = "poll"))
    /\ \A p \in Procs :
          <>[](~marker.exists)
              => [](pc[p] = "poll"
                      => <>(pc[p] # "poll"
                              /\ startEntered[p] = "marker absent"))

C13_Witness ==
    \E p \in Procs :
        /\ cmd[p] = "restart" /\ pc[p] = "poll" /\ lastPoll[p] = "present"
        /\ stop_status[p] = "Ok" /\ marker.exists

InStop(p) == pc[p] \in {"s_import", "s_exists", "s_kill"}

\* C14: no step of stop removes or rewrites the marker, and the stop
\* command is over with the step that sends the signal: it waits neither
\* for the process nor for the marker.  So the marker is still there right
\* after a successful stop, and a start that checks it then fails with
\* AlreadyRunning.
C14_StopFireAndForget ==
    /\ [][\A p \in Procs :
            (InStop(p) /\ pc'[p] # pc[p]) => marker' = marker]_vars
    /\ [][\A p \in Procs :
            (cmd[p] = "stop" /\ pc[p] = "s_kill" /\ stop_status'[p] = "Ok")
            => /\ pc'[p] = "done" /\ outcome'[p] = "returned"
               /\ marker'.exists]_vars
    /\ [](\A p \in Procs :
            cmd[p] = "stop"
            => /\ lastPoll[p] = "none"
               /\ (stop_status[p] # "" => Done(p)))
    /\ [][\A p, q \in Procs :
            (cmd[p] = "stop" /\ stop_status[p] = "Ok" /\ Done(p)
                /\ StartCommand(q) /\ marker.exists
                /\ pc[q] = "marker" /\ pc'[q] # "marker")
            => /\ error'[q] = "AlreadyRunning"
               /\ outcome'[q] = "exit" /\ exit_code'[q] = -1
               /\ spawns'[q] = spawns[q]]_vars

C14_Witness ==
    \E p, q \in Procs :
        /\ cmd[p] = "stop" /\ stop_status[p] = "Ok" /\ kills[p] = <<4242>>
        /\ marker = MarkerWith(StalePid)
        /\ StartCommand(q) /\ error[q] = "AlreadyRunning" /\ spawns[q] = 0

\* C15: start fails with PluginNotFound, exit code -1 and no launch,
\* whenever the plugin lookup gives no match or more than one; an
\* application name is taken only when exactly one descriptor matches.
C15_PluginResolution ==
    \A p \in Procs :
        /\ app_name[p] # "" => Len(plugins) = 1
        /\ error[p] = "PluginNotFound"
             => outcome[p] = "exit" /\ exit_code[p] = -1 /\ ~Launched(p)
        /\ (Launched(p) /\ cmd[p] \in {"start", "restart"})
             => Len(plugins) = 1

\* C16: after each Failure of a supervised launch the text printed below
\* the Fail marker is not empty and is the captured output that made the
\* launch a Failure: stderr when it is not empty, stdout otherwise.
C16_FailureText ==
    \A p \in Procs :
        result[p] = "Fail"
        => /\ printed[p] # <<>>
           /\ printed[p] = IF err[p] # <<>> THEN err[p] ELSE out[p]

Occurrences(s, x) == Cardinality({i \in 1..Len(s) : s[i] = x})

\* C17: a built argument vector holds exactly one of "--nodaemon" and
\* "--syslog": "--nodaemon" exactly when the launch replaces the process
\* image (managed hosting or development), "--syslog" exactly when it is a
\* supervised spawn; in managed hosting it holds neither "--syslog" nor a
\* reactor option, whatever the configuration.
C17_DaemonFlag ==
    \A p \in Procs :
        args[p] # <<>>
        => LET nodaemon == Occurrences(args[p], "--nodaemon")
               syslog == Occurrences(args[p], "--syslog")
           IN /\ nodaemon + syslog = 1
              /\ nodaemon = 1 <=> (in_heroku \/ development)
              /\ syslog = 1 <=> (~in_heroku /\ ~development)
              /\ outcome[p] = "exec" => nodaemon = 1
              /\ spawns[p] > 0 => syslog = 1
              /\ in_heroku
                   => /\ syslog = 0
                      /\ Range(args[p]) \cap ReactorOptions = {}
                      /\ args[p] = PortOption(<<"twistd", "--nodaemon",
                                                app_name[p]>>, options[p])

C17_Witness ==
    \E p \in Procs :
        /\ in_heroku /\ ~development /\ ~auto_select_reactor
        /\ outcome[p] = "exec"
        /\ args[p] = <<"twistd", "--nodaemon", "my_app">>

\* The step of start that comes right before each step.
Before(label) ==
    CASE label = "port" -> "load"
      [] label = "plugin" -> "port"
      [] label = "marker" -> "plugin"
      [] label = "args" -> "marker"
      [] label = "launch" -> "args"

\* C18: the automatic retry starts again at the configuration load, with
\* the same options, and goes through the port check, the plugin lookup
\* and the marker check in turn.  If the marker is there at the retry's
\* marker check (written, say, by the first child) the retry spawns
\* nothing and the command ends with AlreadyRunning and exit code -1; a
\* further spawn happens only after a marker check that found it absent.
C18_RetryRechecks ==
    /\ [][\A p \in Procs :
            (pc[p] = "classify" /\ pc'[p] \notin {"classify", "done"})
            => /\ pc'[p] = "load" /\ dropin_cache_wa'[p]
               /\ spawns'[p] = spawns[p]]_vars
    /\ [][options' = options]_vars
    /\ [][\A p \in Procs :
            (pc'[p] # pc[p]
                /\ pc'[p] \in {"port", "plugin", "marker", "args", "launch"})
            => pc[p] = Before(pc'[p])]_vars
    /\ [][\A p \in Procs :
            (dropin_cache_wa[p] /\ pc[p] = "marker" /\ pc'[p] # "marker")
            => IF marker.exists
               THEN /\ error'[p] = "AlreadyRunning" /\ pc'[p] = "done"
                    /\ outcome'[p] = "exit" /\ exit_code'[p] = -1
                    /\ spawns'[p] = spawns[p]
               ELSE pc'[p] = "args"]_vars
    /\ [][\A p \in Procs :
            spawns'[p] # spawns[p]
            => pc[p] = "launch" /\ spawns'[p] = spawns[p] + 1]_vars
    /\ [](\A p \in Procs :
            (dropin_cache_wa[p] /\ error[p] = "AlreadyRunning")
            => /\ outcome[p] = "exit" /\ exit_code[p] = -1
               /\ spawns[p] >= 1)

C18_Witness ==
    \E p \in Procs :
        /\ StartCommand(p) /\ options[p] = <<"8080">>
        /\ dropin_cache_wa[p] /\ error[p] = "AlreadyRunning"
        /\ spawns[p] = 1 /\ marker = MarkerWith(DaemonPid)
        /\ exit_code[p] = -1

PortCheckFails == POSIX /\ (port = <<>> \/ (port[1] <= 1024 /\ uid # 0))

\* The error of the first check that fails, "" when the configuration, the
\* port and the plugin lookup are all in order.
FirstFailure ==
    IF ~services THEN "ConfigurationMissing"
    ELSE IF POSIX /\ port = <<>> THEN "MissingPort"
    ELSE IF PortCheckFails THEN "PrivilegedPortDenied"
    ELSE IF plugins = <<>> THEN "PluginNotFound"
    ELSE ""

\* C19: start checks the configuration, then the port (on POSIX), then
\* the plugin descriptor, then the marker, and the first check that fails
\* gives the error: a step is reached only when the checks before it have
\* passed, and the marker is looked at only after the other three.  The
\* arguments are built right after a marker check that found no marker,
\* and neither that step nor the launch touches the marker.
C19_CheckOrder ==
    /\ [](\A p \in Procs :
            /\ pc[p] \in {"port", "plugin", "marker"} => services
            /\ pc[p] \in {"plugin", "marker"} => ~PortCheckFails
            /\ pc[p] = "marker" => plugins # <<>>
            /\ (StartCommand(p) /\ ~dropin_cache_wa[p]
                  /\ pc[p] \in {"load", "port", "plugin", "marker"})
                 => ~markerTouched[p]
            /\ (startEntered[p] # "no" /\ Done(p) /\ outcome[p] = "exit")
                 => IF FirstFailure # ""
                    THEN error[p] = FirstFailure
                    ELSE error[p] \in {"AlreadyRunning", "LaunchFailure", ""})
    /\ [][\A p \in Procs :
            (pc'[p] = "args" /\ pc[p] # "args")
            => pc[p] = "marker" /\ ~marker.exists]_vars
    /\ [][\A p \in Procs :
            (pc[p] \in {"args", "launch"} /\ pc'[p] # pc[p])
            => /\ marker' = marker
               /\ markerTouched'[p] = markerTouched[p]
               /\ pc'[p] = IF pc[p] = "args" THEN "launch"
                           ELSE IF in_heroku \/ development THEN "done"
                           ELSE "classify"]_vars

C19_Witness ==
    \E p \in Procs :
        /\ StartCommand(p) /\ marker.exists
        /\ POSIX /\ port = <<1024>> /\ uid = 1000 /\ plugins = <<>>
        /\ error[p] = "PrivilegedPortDenied" /\ Done(p)

====
